---- MODULE Spec2Model ----
(***************************************************************************)
(* A model of the literature clock (src/src/main.rs): the time index       *)
(* Database (new, at_time, around_time, next_time), the two highlight      *)
(* alignments of Quote (format, format_no_wrap) and main's loop.           *)
(***************************************************************************)
EXTENDS Integers, Sequences, FiniteSets, TLC

VARIABLES
    quotes,     \* the corpus: Vec<Quote> returned by load_quotes
    map,        \* Database.map: (hh, mm) -> Vec<&Quote>, a reference = an index of quotes
    pc,         \* position of the program
    hh, mm,     \* around_time's mutable probe time
    dir,        \* around_time's direction
    q_hh, q_mm, \* the arguments of the lookup call in progress
    steps,      \* number of next_time steps taken by the search in progress
    ret,        \* what the lookup returned: a set holding at most one reference
    earlier,    \* what the call returned when it was made just before: <<>> or <<ret>>
    n_in,       \* next_time alone: the time it was last given,
    n_dir,      \*   the direction it was last given,
    n_out,      \*   the time it returned,
    n_called,   \*   and whether it has been called at all
    n_start,    \* next_time applied in a row: the time the row began at,
    n_net,      \*   and the steps made Forward less the steps made Backward
    self,       \* the Quote that format or format_no_wrap is called on
    breaks,     \* format: the spaces of the quotation at which the reflow breaks the line
    text,       \* format: the reflowed rendering `quote`, a sequence of chars
    ctx,        \* the lowercased context phrase
    idx,        \* format: the index the scan's enumerate() yields next
    head,       \* format: the head flag
    highlights, \* format: the vector of matched indices
    range,      \* format_no_wrap: <<start, end>>, byte offsets
    stream,     \* what has been written to the Buffer: <<text, color>> pairs
    clock,      \* main: whether the first argument is "clock"
    last,       \* main: the Option `last`, a set holding at most one reference
    iter,       \* main: iterations of the loop begun so far
    printed,    \* main: whether the iteration in progress printed its buffer
    prints      \* main: number of buffers printed to stdout

dbVars == <<quotes, map, hh, mm, dir, q_hh, q_mm, steps, ret, earlier>>

timeVars == <<dbVars, pc>>

stepVars == <<n_in, n_dir, n_out, n_called, n_start, n_net>>

fmtVars == <<self, breaks, text, ctx, idx, head, highlights, range, stream>>

mainVars == <<clock, last, iter, printed, prints>>

vars == <<timeVars, stepVars, fmtVars, mainVars>>

----------------------------------------------------------------------------
(* Bounds of the model *)

\* longest corpus
MaxQuotes == 2

\* iterations of main's loop the model follows
MaxIter == 3

\* longest quotation text and longest context phrase, in chars
MaxQuoteLen == 4

MaxCtxLen == 3

\* iterations of around_time's loop after which the model stops following it
MaxSteps == 1442

\* how far from its start, in steps, a row of next_time calls is followed
MaxNet == 1440

----------------------------------------------------------------------------
(* The values of the variables of a part of the program that is not running *)

NoCall ==
    /\ hh = 0 /\ mm = 0 /\ dir = "Forward"
    /\ q_hh = 0 /\ q_mm = 0 /\ steps = 0 /\ ret = {} /\ earlier = <<>>

NoStep ==
    /\ n_in = <<0, 0>> /\ n_dir = "Forward" /\ n_out = <<0, 0>> /\ n_called = FALSE
    /\ n_start = <<0, 0>> /\ n_net = 0

NoMain ==
    /\ clock = FALSE /\ last = {} /\ iter = 0 /\ printed = FALSE /\ prints = 0

----------------------------------------------------------------------------
(* u8 arithmetic *)

U8 == 256

Add8(a, b) == (a + b) % U8

Sub8(a, b) == (a - b + U8) % U8

----------------------------------------------------------------------------
(* Direction and the clock *)

\* the last hour of the day and the last minute of the hour
LastHour == 23

LastMinute == 59

Hours == 0..LastHour

Minutes == 0..LastMinute

ValidTime(h, mi) == h \in Hours /\ mi \in Minutes

Direction == {"Forward", "Backward"}

----------------------------------------------------------------------------
(* Time literals and their parsing in Database::new *)

Digits == {"0", "1", "2", "3", "4", "5", "6", "7", "8", "9"}

DigitVal(c) ==
    CASE c = "0" -> 0 [] c = "1" -> 1 [] c = "2" -> 2 [] c = "3" -> 3
      [] c = "4" -> 4 [] c = "5" -> 5 [] c = "6" -> 6 [] c = "7" -> 7
      [] c = "8" -> 8 [] c = "9" -> 9

RECURSIVE DecimalValue(_)
DecimalValue(s) ==
    IF s = <<>> THEN 0
    ELSE 10 * DecimalValue(SubSeq(s, 1, Len(s) - 1)) + DigitVal(s[Len(s)])

\* str::parse::<u8>: an optional '+', then at least one digit, value below 256
ParseU8(s) ==
    LET body == IF s # <<>> /\ s[1] = "+" THEN Tail(s) ELSE s
    IN  IF body # <<>> /\ (\A i \in 1..Len(body) : body[i] \in Digits)
           /\ DecimalValue(body) < U8
        THEN [ok |-> TRUE, val |-> DecimalValue(body)]
        ELSE [ok |-> FALSE, val |-> 0]

\* str::splitn(2, ':'): the text before the first ':' and the whole rest after it
SplitN2(s) ==
    IF \E i \in 1..Len(s) : s[i] = ":"
    THEN LET i == CHOOSE j \in 1..Len(s) :
                      s[j] = ":" /\ \A k \in 1..(j - 1) : s[k] # ":"
         IN  <<SubSeq(s, 1, i - 1), SubSeq(s, i + 1, Len(s))>>
    ELSE <<s>>

\* the closure of Database::new applied to one time field: either the key
\* (hh, mm) or a panic of one of its unwraps
ParseTime(t) ==
    LET parts == SplitN2(t)
    IN  IF Len(parts) = 2 /\ ParseU8(parts[1]).ok /\ ParseU8(parts[2]).ok
        THEN [ok |-> TRUE, key |-> <<ParseU8(parts[1]).val, ParseU8(parts[2]).val>>]
        ELSE [ok |-> FALSE, key |-> <<0, 0>>]

----------------------------------------------------------------------------
(* The corpus the model draws from *)

T0000 == <<"0", "0", ":", "0", "0">>
T1230 == <<"1", "2", ":", "3", "0">>
T2359 == <<"2", "3", ":", "5", "9">>
T2400 == <<"2", "4", ":", "0", "0">>
TNoColon == <<"1", "2", "3", "0">>
TTooBig == <<"1", "2", ":", "3", "0", "0">>

TimeLiterals == {T0000, T1230, T2359, T2400, TNoColon, TTooBig}

Quote(t, c, q) == [time |-> t, context |-> c, quote |-> q]

QuotePool == {Quote(t, <<"a">>, <<"a">>) : t \in TimeLiterals}

\* the sequences over S of length n, and of length at most n
RECURSIVE SeqsOfLen(_, _)
SeqsOfLen(S, n) ==
    IF n = 0 THEN {<<>>}
    ELSE {Append(s, x) : s \in SeqsOfLen(S, n - 1), x \in S}

SeqsUpTo(S, n) == UNION {SeqsOfLen(S, k) : k \in 0..n}

Corpora == SeqsUpTo(QuotePool, MaxQuotes)

----------------------------------------------------------------------------
(* Database *)

\* insert of a plain HashMap: the value replaces what the key held
Insert_replace(m, k, v) ==
    [x \in DOMAIN m \cup {k} |-> IF x = k THEN <<v>> ELSE m[x]]

\* MultiMap::insert: push onto the key's vector, creating it when absent
Insert(m, k, v) ==
    IF k \in DOMAIN m
    THEN [m EXCEPT ![k] = Append(@, v)]
    ELSE [x \in DOMAIN m \cup {k} |-> IF x = k THEN <<v>> ELSE m[x]]

EmptyMap == [x \in {} |-> <<>>]

\* Database::new, the collect of the first n quotes
RECURSIVE Collect(_, _)
Collect(qs, n) ==
    IF n = 0 THEN EmptyMap
    ELSE Insert(Collect(qs, n - 1), ParseTime(qs[n].time).key, n)

NewPanics(qs) == \E i \in 1..Len(qs) : ~ParseTime(qs[i].time).ok

New(qs) == Collect(qs, Len(qs))

\* at_time taking the first reference of the vector instead of a random one
at_time_first(m, h, mi) ==
    IF <<h, mi>> \in DOMAIN m THEN {m[<<h, mi>>][1]} ELSE {}

\* at_time choosing among all the references of the index when the key is populated
at_time_any(m, h, mi) ==
    IF <<h, mi>> \in DOMAIN m
    THEN UNION {{m[k][i] : i \in 1..Len(m[k])} : k \in DOMAIN m}
    ELSE {}

\* Database::at_time: the references it may return; the empty set is None
at_time(m, h, mi) ==
    IF <<h, mi>> \in DOMAIN m
    THEN {m[<<h, mi>>][i] : i \in 1..Len(m[<<h, mi>>])}
    ELSE {}

\* next_time with the arms of the two directions exchanged
next_time_swapped(h, mi, d) ==
    IF d = "Forward"
    THEN IF h = 0 /\ mi = 0 THEN <<LastHour, LastMinute>>
         ELSE IF mi = 0 THEN <<Sub8(h, 1), LastMinute>>
         ELSE <<h, Sub8(mi, 1)>>
    ELSE IF h = LastHour /\ mi = LastMinute THEN <<0, 0>>
         ELSE IF mi = LastMinute THEN <<Add8(h, 1), 0>>
         ELSE <<h, Add8(mi, 1)>>

\* next_time without the arm (Forward, 23, 59)
next_time_nowrap(h, mi, d) ==
    IF d = "Backward"
    THEN IF h = 0 /\ mi = 0 THEN <<LastHour, LastMinute>>
         ELSE IF mi = 0 THEN <<Sub8(h, 1), LastMinute>>
         ELSE <<h, Sub8(mi, 1)>>
    ELSE IF mi = LastMinute THEN <<Add8(h, 1), 0>>
         ELSE <<h, Add8(mi, 1)>>

\* next_time whose borrow of an hour leaves the minute at 0
next_time_noborrow(h, mi, d) ==
    IF d = "Backward"
    THEN IF h = 0 /\ mi = 0 THEN <<LastHour, LastMinute>>
         ELSE IF mi = 0 THEN <<Sub8(h, 1), 0>>
         ELSE <<h, Sub8(mi, 1)>>
    ELSE IF h = LastHour /\ mi = LastMinute THEN <<0, 0>>
         ELSE IF mi = LastMinute THEN <<Add8(h, 1), 0>>
         ELSE <<h, Add8(mi, 1)>>

\* next_time without the arm (Backward, 0, 0): the hour wraps as a u8
next_time_underflow(h, mi, d) ==
    IF d = "Backward"
    THEN IF mi = 0 THEN <<Sub8(h, 1), LastMinute>>
         ELSE <<h, Sub8(mi, 1)>>
    ELSE IF h = LastHour /\ mi = LastMinute THEN <<0, 0>>
         ELSE IF mi = LastMinute THEN <<Add8(h, 1), 0>>
         ELSE <<h, Add8(mi, 1)>>

\* Database::next_time
next_time(h, mi, d) ==
    IF d = "Backward"
    THEN IF h = 0 /\ mi = 0 THEN <<LastHour, LastMinute>>
         ELSE IF mi = 0 THEN <<Sub8(h, 1), LastMinute>>
         ELSE <<h, Sub8(mi, 1)>>
    ELSE IF h = LastHour /\ mi = LastMinute THEN <<0, 0>>
         ELSE IF mi = LastMinute THEN <<Add8(h, 1), 0>>
         ELSE <<h, Add8(mi, 1)>>

\* whether next_time's u8 arithmetic leaves 0..255
next_time_overflows(h, mi, d) ==
    IF d = "Backward"
    THEN IF h = 0 /\ mi = 0 THEN FALSE
         ELSE IF mi = 0 THEN h - 1 < 0
         ELSE mi - 1 < 0
    ELSE IF h = LastHour /\ mi = LastMinute THEN FALSE
         ELSE IF mi = LastMinute THEN h + 1 >= U8
         ELSE mi + 1 >= U8

----------------------------------------------------------------------------
(* Characters: a char is named by a string; the table gives its UTF-8     *)
(* length and its lowercase forms                                          *)

\* "e_acute" is U+00E9, "KELVIN" is U+212A (its lowercase is the ASCII k),
\* "rsquo" is U+2019, the typographic apostrophe
ByteLen(c) ==
    CASE c = "e_acute" -> 2
      [] c = "KELVIN" -> 3
      [] c = "rsquo" -> 3
      [] OTHER -> 1

\* char::to_ascii_lowercase
ToAsciiLowercase(c) == IF c = "A" THEN "a" ELSE c

\* str::to_lowercase, char by char
ToLowercase(c) ==
    CASE c = "A" -> "a"
      [] c = "KELVIN" -> "k"
      [] OTHER -> c

\* str::to_ascii_lowercase
StrToAsciiLowercase(s) == [i \in 1..Len(s) |-> ToAsciiLowercase(s[i])]

\* str::to_lowercase
StrToLowercase(s) == [i \in 1..Len(s) |-> ToLowercase(s[i])]

\* str::replace of one char by one char
Replace(s, from, to) == [i \in 1..Len(s) |-> IF s[i] = from THEN to ELSE s[i]]

\* str::len: the length in bytes
RECURSIVE StrLen(_)
StrLen(s) == IF s = <<>> THEN 0 ELSE ByteLen(Head(s)) + StrLen(Tail(s))

----------------------------------------------------------------------------
(* Quote::format, the wrapped variant *)

InitialIndent == <<" ", " ">>

SubsequentIndent == <<" ", " ", " ", " ">>

\* the reflow of textwrap: the text after the initial indent, each space
\* of `breaks` turned into a line break and the subsequent indent
RECURSIVE WrapFrom(_, _, _)
WrapFrom(t, i, brk) ==
    IF i > Len(t) THEN <<>>
    ELSE (IF i \in brk THEN <<"\n">> \o SubsequentIndent ELSE <<t[i]>>)
             \o WrapFrom(t, i + 1, brk)

Wrap(t, brk) == InitialIndent \o WrapFrom(t, 1, brk)

Spaces(t) == {i \in 1..Len(t) : t[i] = " "}

\* ctx of format: apostrophes normalised, ASCII letters lowercased
FormatCtx(c) == StrToAsciiLowercase(Replace(c, "rsquo", "'"))

\* ctx.chars().nth(k): a set holding the char, empty for None
Nth(c, k) == IF k < Len(c) THEN {c[k + 1]} ELSE {}

\* the comparison of line 50 taking any char while the phrase has one left
Matches_any(ch, c, hl) == Nth(c, Len(hl)) # {}

\* line 50: Some(z) == ctx.chars().nth(highlights.len())
Matches(ch, c, hl) == {ToAsciiLowercase(ch)} = Nth(c, Len(hl))

\* line 52: highlights.len() == ctx.len()
Complete(hl, c) == Len(hl) = StrLen(c)

\* the painting of lines 65-73 with no index painted in the highlight color
Paint_inactive(t, hl) ==
    LET shown == Replace(t, "'", "rsquo")
    IN  [i \in 1..Len(shown) |-> <<<<shown[i]>>, "inactive">>]

\* lines 65-73: each char of the rendering with the color it is painted in
Paint(t, hl) ==
    LET shown == Replace(t, "'", "rsquo")
    IN  [i \in 1..Len(shown) |->
            <<<<shown[i]>>,
              IF \E j \in 1..Len(hl) : hl[j] = i - 1 THEN "highlight" ELSE "inactive">>]

FormatAlphabet == {"a", "A", " ", "e_acute"}

\* texts of words separated by single spaces
WordTexts(n) ==
    {t \in SeqsUpTo(FormatAlphabet, n) :
        /\ t # <<>>
        /\ t[1] # " " /\ t[Len(t)] # " "
        /\ \A i \in 1..(Len(t) - 1) : ~(t[i] = " " /\ t[i + 1] = " ")}

\* the quotations of three words of one letter: the shortest in which a
\* line begun by a line break goes on with a space after its first word
ThreeWords ==
    {<<x, " ", y, " ", z>> : x \in FormatAlphabet \ {" "}, y \in FormatAlphabet \ {" "},
                              z \in FormatAlphabet \ {" "}}

NoFormat ==
    /\ self = Quote(T0000, <<"a">>, <<"a">>)
    /\ breaks = {} /\ text = <<>> /\ ctx = <<>> /\ idx = 0 /\ head = FALSE
    /\ highlights = <<>> /\ range = <<0, 0>> /\ stream = <<>>

InitFormat ==
    /\ quotes = <<>> /\ map = EmptyMap /\ NoCall /\ NoStep /\ NoMain
    /\ pc = "format"
    /\ \E c \in WordTexts(MaxCtxLen), q \in WordTexts(MaxQuoteLen) \cup ThreeWords :
           self = Quote(T0000, c, q)
    /\ breaks = {} /\ text = <<>> /\ ctx = <<>> /\ idx = 0 /\ head = FALSE
    /\ highlights = <<>> /\ range = <<0, 0>> /\ stream = <<>>

\* lines 30-41
FormatBegin ==
    /\ pc = "format"
    /\ breaks' \in SUBSET Spaces(self.quote)
    /\ text' = Wrap(Replace(self.quote, "rsquo", "'"), breaks')
    /\ stream' = <<<<<<"\n">>, "none">>>>
    /\ ctx' = FormatCtx(self.context)
    /\ head' = FALSE
    /\ highlights' = <<>>
    /\ idx' = 0
    /\ pc' = "scan"
    /\ UNCHANGED <<dbVars, stepVars, mainVars, self, range>>

\* lines 44-47
ScanNewline ==
    /\ pc = "scan" /\ idx < Len(text)
    /\ text[idx + 1] = "\n"
    /\ head' = TRUE
    /\ idx' = idx + 1
    /\ UNCHANGED <<dbVars, stepVars, mainVars, pc, self, breaks, text, ctx, highlights,
                   range, stream>>

\* lines 49-56
ScanMatch ==
    /\ pc = "scan" /\ idx < Len(text)
    /\ text[idx + 1] # "\n"
    /\ Matches(text[idx + 1], ctx, highlights)
    /\ highlights' = Append(highlights, idx)
    /\ IF Complete(highlights', ctx)
       THEN pc' = "paint" /\ idx' = idx
       ELSE pc' = pc /\ idx' = idx + 1
    /\ UNCHANGED <<dbVars, stepVars, mainVars,
                   self, breaks, text, ctx, head, range, stream>>

\* lines 58-60
ScanSkip ==
    /\ pc = "scan" /\ idx < Len(text)
    /\ text[idx + 1] # "\n"
    /\ ~Matches(text[idx + 1], ctx, highlights)
    /\ text[idx + 1] = " " /\ head
    /\ idx' = idx + 1
    /\ UNCHANGED <<dbVars, stepVars, mainVars, pc, self, breaks, text, ctx, head,
                   highlights, range, stream>>

\* the reset of lines 61-62 taking the failed char as the start of a new match
ScanReset_retry ==
    /\ pc = "scan" /\ idx < Len(text)
    /\ text[idx + 1] # "\n"
    /\ ~Matches(text[idx + 1], ctx, highlights)
    /\ ~(text[idx + 1] = " " /\ head)
    /\ highlights' = IF Matches(text[idx + 1], ctx, <<>>) THEN <<idx>> ELSE <<>>
    /\ head' = FALSE
    /\ idx' = idx + 1
    /\ UNCHANGED <<dbVars, stepVars, mainVars, pc, self, breaks, text, ctx, range,
                   stream>>

\* lines 61-62
ScanReset ==
    /\ pc = "scan" /\ idx < Len(text)
    /\ text[idx + 1] # "\n"
    /\ ~Matches(text[idx + 1], ctx, highlights)
    /\ ~(text[idx + 1] = " " /\ head)
    /\ highlights' = <<>>
    /\ head' = FALSE
    /\ idx' = idx + 1
    /\ UNCHANGED <<dbVars, stepVars, mainVars, pc, self, breaks, text, ctx, range,
                   stream>>

\* the for loop of line 43 ends with the rendering
ScanExhausted ==
    /\ pc = "scan" /\ idx = Len(text)
    /\ pc' = "paint"
    /\ UNCHANGED <<dbVars, stepVars, mainVars, fmtVars>>

\* lines 65-86: the painted rendering, two newlines, the attribution
FormatPaint ==
    /\ pc = "paint"
    /\ stream' = stream \o Paint(text, highlights)
                    \o <<<<<<"\n">>, "none">>, <<<<"\n">>, "none">>,
                         <<<<"attribution">>, "active">>>>
    /\ pc' = "formatted"
    /\ UNCHANGED <<dbVars, stepVars, mainVars,
                   self, breaks, text, ctx, idx, head, highlights, range>>

NextFormat ==
    \/ FormatBegin
    \/ ScanNewline
    \/ ScanMatch
    \/ ScanSkip
    \/ ScanReset
    \/ ScanExhausted
    \/ FormatPaint

SpecFormat == InitFormat /\ [][NextFormat]_vars

----------------------------------------------------------------------------
(* What the claims about the wrapped scan speak of *)

AsciiOnly(c) == \A i \in 1..Len(c) : ByteLen(c[i]) = 1

\* the phrase c occurs in t, compared as the scan compares, from index p
\* (counted from 0)
OccursAt(t, c, p) ==
    /\ p + Len(c) <= Len(t)
    /\ \A j \in 1..Len(c) : ToAsciiLowercase(t[p + j]) = c[j]

FirstOccurrence(t, c, p) ==
    /\ OccursAt(t, c, p)
    /\ \A r \in 0..(p - 1) : ~OccursAt(t, c, r)

\* the first char of the phrase is nowhere in t before index p
NoEarlierAnchor(t, c, p) ==
    \A r \in 1..p : ToAsciiLowercase(t[r]) # c[1]

HighlightSet == {highlights[j] : j \in 1..Len(highlights)}

\* the index in the rendering of the p-th char of the quotation
RenderedIndex(p) ==
    Len(InitialIndent) + (p - 1)
        + Len(SubsequentIndent) * Cardinality({b \in breaks : b < p})

\* C6: when the reflow breaks the line at one inter-word space of the
\* phrase's occurrence, the highlight set holds the index of every letter of
\* the occurrence, not the index of the newline and of no indentation space.
\* Stated for an ASCII phrase whose first char does not occur earlier.
C6_WrappedTolerance ==
    pc = "formatted" =>
        \A p \in 1..Len(self.quote) : \A b \in breaks :
            (/\ AsciiOnly(ctx)
             /\ FirstOccurrence(self.quote, ctx, p - 1)
             /\ NoEarlierAnchor(self.quote, ctx, p - 1)
             /\ breaks = {b}
             /\ p < b /\ b < p + Len(ctx) - 1)
            => /\ \A j \in 0..(Len(ctx) - 1) :
                     self.quote[p + j] # " " => RenderedIndex(p + j) \in HighlightSet
               /\ RenderedIndex(b) \notin HighlightSet
               /\ \A k \in 1..Len(SubsequentIndent) :
                     RenderedIndex(b) + k \notin HighlightSet

\* C7: on a rendering of one line in which the phrase occurs and the
\* phrase's first char occurs nowhere before that first occurrence, the
\* highlight set is exactly the index range of the first occurrence.
C7_LaterOccurrence ==
    pc = "formatted" /\ breaks = {} =>
        \A p \in 0..Len(text) :
            (FirstOccurrence(text, ctx, p) /\ NoEarlierAnchor(text, ctx, p))
            => highlights = [j \in 1..Len(ctx) |-> p + j - 1]

\* the same holds when the phrase is of one-byte chars only
LaterOccurrenceAscii == AsciiOnly(ctx) => C7_LaterOccurrence

----------------------------------------------------------------------------
(* Quote::format_no_wrap, the exact-substring variant *)

\* the byte offset of the char boundary before the (k+1)-th char of s
Offset(s, k) == StrLen(SubSeq(s, 1, k))

\* find followed by unwrap_or(0) instead of unwrap
Find_or_zero(hay, needle) ==
    IF \E k \in 0..(Len(hay) - Len(needle)) : SubSeq(hay, k + 1, k + Len(needle)) = needle
    THEN {Offset(hay, CHOOSE k \in 0..(Len(hay) - Len(needle)) :
                         /\ SubSeq(hay, k + 1, k + Len(needle)) = needle
                         /\ \A l \in 0..(k - 1) :
                                SubSeq(hay, l + 1, l + Len(needle)) # needle)}
    ELSE {0}

\* str::find: the byte offset of the first occurrence of needle in hay, as a
\* set holding it, empty for None
Find(hay, needle) ==
    LET at == {k \in 0..(Len(hay) - Len(needle)) :
                  SubSeq(hay, k + 1, k + Len(needle)) = needle}
    IN  IF at = {} THEN {}
        ELSE {Offset(hay, CHOOSE k \in at : \A l \in at : k <= l)}

\* str::is_char_boundary
IsCharBoundary(s, b) == \E k \in 0..Len(s) : Offset(s, k) = b

\* whether the slice &s[a..b] panics
SlicePanics(s, a, b) == ~(a <= b /\ IsCharBoundary(s, a) /\ IsCharBoundary(s, b))

\* the slice &s[a..b], a and b on char boundaries
Slice(s, a, b) ==
    LET ka == CHOOSE k \in 0..Len(s) : Offset(s, k) = a
        kb == CHOOSE k \in 0..Len(s) : Offset(s, k) = b
    IN  SubSeq(s, ka + 1, kb)

NoWrapAlphabet == {"a", "A", "KELVIN", "."}

NoWrapTexts(n) == SeqsUpTo(NoWrapAlphabet, n) \ {<<>>}

InitNoWrap ==
    /\ quotes = <<>> /\ map = EmptyMap /\ NoCall /\ NoStep /\ NoMain
    /\ pc = "no_wrap"
    /\ \E c \in NoWrapTexts(MaxCtxLen), q \in NoWrapTexts(MaxQuoteLen) :
           self = Quote(T0000, c, q)
    /\ breaks = {} /\ text = <<>> /\ ctx = <<>> /\ idx = 0 /\ head = FALSE
    /\ highlights = <<>> /\ range = <<0, 0>> /\ stream = <<>>

\* lines 90-93
NoWrapFind ==
    /\ pc = "no_wrap"
    /\ ctx' = StrToLowercase(self.context)
    /\ LET found == Find(StrToLowercase(self.quote), ctx')
       IN  IF found = {}
           THEN pc' = "panic" /\ range' = range
           ELSE /\ pc' = "write_before"
                /\ \E start \in found : range' = <<start, start + StrLen(ctx')>>
    /\ UNCHANGED <<dbVars, stepVars, mainVars, self, breaks, text, idx, head,
                   highlights, stream>>

\* lines 95-98
NoWrapWriteBefore ==
    /\ pc = "write_before"
    /\ IF SlicePanics(self.quote, 0, range[1])
       THEN /\ pc' = "panic"
            /\ stream' = stream \o <<<<<<"\n">>, "none">>>>
       ELSE /\ pc' = "write_range"
            /\ stream' = stream \o <<<<<<"\n">>, "none">>,
                                     <<Slice(self.quote, 0, range[1]), "inactive">>>>
    /\ UNCHANGED <<dbVars, stepVars, mainVars, self, breaks, text, ctx, idx, head,
                   highlights, range>>

\* lines 100-101
NoWrapWriteRange ==
    /\ pc = "write_range"
    /\ IF SlicePanics(self.quote, range[1], range[2])
       THEN pc' = "panic" /\ stream' = stream
       ELSE /\ pc' = "write_after"
            /\ stream' = Append(stream,
                                <<Slice(self.quote, range[1], range[2]), "highlight">>)
    /\ UNCHANGED <<dbVars, stepVars, mainVars, self, breaks, text, ctx, idx, head,
                   highlights, range>>

\* lines 103-111
NoWrapWriteAfter ==
    /\ pc = "write_after"
    /\ IF SlicePanics(self.quote, range[2], StrLen(self.quote))
       THEN pc' = "panic" /\ stream' = stream
       ELSE /\ pc' = "formatted"
            /\ stream' = stream \o
                   <<<<Slice(self.quote, range[2], StrLen(self.quote)) \o <<"\n">>,
                       "inactive">>,
                     <<<<"\n">>, "inactive">>,
                     <<<<"attribution">>, "active">>>>
    /\ UNCHANGED <<dbVars, stepVars, mainVars, self, breaks, text, ctx, idx, head,
                   highlights, range>>

NextNoWrap ==
    \/ NoWrapFind
    \/ NoWrapWriteBefore
    \/ NoWrapWriteRange
    \/ NoWrapWriteAfter

SpecNoWrap == InitNoWrap /\ [][NextNoWrap]_vars

----------------------------------------------------------------------------
(* What the claims about the exact-substring variant speak of *)

\* the phrase c occurs in the quotation q from char p (counted from 0),
\* compared char by char without regard to case
OccursNoCase(q, c, p) ==
    /\ p + Len(c) <= Len(q)
    /\ \A j \in 1..Len(c) : ToLowercase(q[p + j]) = ToLowercase(c[j])

ContainsNoCase(q, c) == \E p \in 0..Len(q) : OccursNoCase(q, c, p)

FirstNoCase(q, c) ==
    CHOOSE p \in 0..Len(q) :
        OccursNoCase(q, c, p) /\ \A r \in 0..(p - 1) : ~OccursNoCase(q, c, r)

\* C8: on a quotation that contains the phrase without regard to case the
\* range starts at the first such occurrence in the quotation, is as long as
\* the occurrence, and the call ends with the text before it, the occurrence
\* in its original case and the text after it written in this order, the
\* occurrence alone in the highlight color.
C8_ExactRange ==
    ContainsNoCase(self.quote, self.context) =>
        LET p == FirstNoCase(self.quote, self.context)
            a == Offset(self.quote, p)
            b == Offset(self.quote, p + Len(self.context))
        IN  /\ pc \in {"write_before", "write_range", "write_after", "formatted"}
                  => range = <<a, b>>
            /\ pc # "panic"
            /\ pc = "formatted" =>
                  /\ stream[2] = <<SubSeq(self.quote, 1, p), "inactive">>
                  /\ stream[3] = <<SubSeq(self.quote, p + 1, p + Len(self.context)),
                                   "highlight">>
                  /\ stream[4] = <<SubSeq(self.quote, p + Len(self.context) + 1,
                                          Len(self.quote)) \o <<"\n">>, "inactive">>

\* the same holds of quotations and phrases whose lowercase form has the
\* byte lengths of the original
ExactRangeSameLengths ==
    (\A i \in 1..Len(self.quote) : self.quote[i] # "KELVIN")
        /\ (\A i \in 1..Len(self.context) : self.context[i] # "KELVIN")
    => C8_ExactRange

\* C10: on a quotation that does not contain the phrase without regard to
\* case, format_no_wrap ends in a panic and writes nothing to the stream.
C10_NotFoundFails ==
    (pc # "no_wrap" /\ ~ContainsNoCase(self.quote, self.context))
        => (pc = "panic" /\ stream = <<>>)

C10_Witness ==
    /\ pc = "panic" /\ stream = <<>>
    /\ ~ContainsNoCase(self.quote, self.context)
    /\ \E i \in 1..Len(self.context), j \in 1..Len(self.quote) :
           self.context[i] = self.quote[j]

----------------------------------------------------------------------------
(* The lookups, called on a built index *)

\* the times the model calls the lookups with: around midnight, around the
\* populated 12:30, and at the ends of an hour
StartHours == {0, 12, LastHour}

StartMinutes == {0, 1, 30, 58, LastMinute}

StartTimes == StartHours \X StartMinutes

\* at_time is also asked for a key that is no clock time
LookupKeys == StartTimes \cup {<<24, 0>>}

InitTime ==
    /\ quotes \in Corpora
    /\ map = EmptyMap
    /\ pc = "new"
    /\ NoCall
    /\ NoStep
    /\ NoFormat
    /\ NoMain

DatabaseNew ==
    /\ pc = "new"
    /\ IF NewPanics(quotes)
       THEN pc' = "panic" /\ map' = map
       ELSE pc' = "idle" /\ map' = New(quotes)
    /\ UNCHANGED <<earlier, quotes, hh, mm, dir, q_hh, q_mm, steps, ret, stepVars, mainVars,
                   fmtVars>>

AtTimeCall(h, mi) ==
    /\ pc = "idle"
    /\ q_hh' = h /\ q_mm' = mi
    /\ IF at_time(map, h, mi) = {}
       THEN ret' = {}
       ELSE \E q \in at_time(map, h, mi) : ret' = {q}
    /\ pc' = "at_time_done"
    /\ UNCHANGED <<earlier, quotes, map, hh, mm, dir, steps, stepVars, mainVars, fmtVars>>

CallAtTime == \E t \in LookupKeys : AtTimeCall(t[1], t[2])

CallAroundTime ==
    /\ pc = "idle"
    /\ \E t \in StartTimes, d \in Direction :
        /\ q_hh' = t[1] /\ q_mm' = t[2] /\ dir' = d
        /\ hh' = t[1] /\ mm' = t[2]
    /\ steps' = 0
    /\ pc' = "around_time"
    /\ UNCHANGED <<earlier, quotes, map, ret, stepVars, mainVars, fmtVars>>

AroundTimeReturn ==
    /\ pc = "around_time"
    /\ \E q \in at_time(map, hh, mm) : ret' = {q}
    /\ pc' = "returned"
    /\ UNCHANGED <<earlier, quotes, map, hh, mm, dir, q_hh, q_mm, steps, stepVars, mainVars,
                   fmtVars>>

AroundTimeStep ==
    /\ pc = "around_time"
    /\ at_time(map, hh, mm) = {}
    /\ steps < MaxSteps
    /\ hh' = next_time(hh, mm, dir)[1]
    /\ mm' = next_time(hh, mm, dir)[2]
    /\ steps' = steps + 1
    /\ UNCHANGED <<earlier, quotes, map, pc, dir, q_hh, q_mm, ret, stepVars, mainVars,
                   fmtVars>>

NextTime ==
    \/ DatabaseNew
    \/ CallAtTime
    \/ CallAroundTime
    \/ AroundTimeReturn
    \/ AroundTimeStep

SpecTime == InitTime /\ [][NextTime]_vars

\* around_time's loop has no suspension point: a search in progress goes on
FairSpecTime == SpecTime /\ WF_vars(AroundTimeStep \/ AroundTimeReturn)

----------------------------------------------------------------------------
(* Sequences of lookups on one index: a call may be made once more with   *)
(* the same arguments, and any call may follow a finished one             *)

\* at_time called again with the arguments of the call that has returned
AtTimeAgain ==
    /\ pc = "at_time_done"
    /\ earlier' = <<ret>>
    /\ IF at_time(map, q_hh, q_mm) = {}
       THEN ret' = {}
       ELSE \E q \in at_time(map, q_hh, q_mm) : ret' = {q}
    /\ UNCHANGED <<quotes, map, pc, hh, mm, dir, q_hh, q_mm, steps, stepVars, mainVars,
                   fmtVars>>

\* around_time called again with the arguments of the call that has returned
AroundTimeAgain ==
    /\ pc = "returned"
    /\ earlier' = <<ret>>
    /\ hh' = q_hh /\ mm' = q_mm
    /\ steps' = 0
    /\ ret' = {}
    /\ pc' = "around_time"
    /\ UNCHANGED <<quotes, map, dir, q_hh, q_mm, stepVars, mainVars, fmtVars>>

\* the caller is done with what the lookup returned; &self is all a lookup
\* had, so the index is as it was for the next call
LookupDone ==
    /\ pc \in {"at_time_done", "returned"}
    /\ hh' = 0 /\ mm' = 0 /\ dir' = "Forward"
    /\ q_hh' = 0 /\ q_mm' = 0 /\ steps' = 0 /\ ret' = {} /\ earlier' = <<>>
    /\ pc' = "idle"
    /\ UNCHANGED <<quotes, map, stepVars, mainVars, fmtVars>>

NextCalls ==
    \/ DatabaseNew
    \/ CallAtTime
    \/ CallAroundTime
    \/ AroundTimeReturn
    \/ AroundTimeStep
    \/ AtTimeAgain
    \/ AroundTimeAgain
    \/ LookupDone

SpecCalls == InitTime /\ [][NextCalls]_vars

----------------------------------------------------------------------------
(* main *)

\* the times Local::now() gives in the model
NowTimes == StartTimes

\* the rows main is run on: two times, three rows of one time that differ
\* in the quotation or in the context only, and a row with a malformed time
MainPool ==
    {Quote(T0000, <<"a">>, <<"a">>), Quote(T1230, <<"a">>, <<"a">>),
     Quote(T1230, <<"a">>, <<"A">>), Quote(T1230, <<"A">>, <<"a">>),
     Quote(TNoColon, <<"a">>, <<"a">>)}

MainCorpora == SeqsUpTo(MainPool, MaxQuotes)

\* line 216: load_quotes keeps the rows that deserialize, however few
InitMain ==
    /\ quotes \in MainCorpora
    /\ map = EmptyMap
    /\ pc = "main"
    /\ NoCall /\ NoStep /\ NoFormat
    /\ clock \in BOOLEAN
    /\ last = {} /\ iter = 0 /\ printed = FALSE /\ prints = 0

\* line 217
MainNew ==
    /\ pc = "main"
    /\ IF NewPanics(quotes)
       THEN pc' = "panic" /\ map' = map
       ELSE pc' = "loop" /\ map' = New(quotes)
    /\ UNCHANGED <<earlier, quotes, hh, mm, dir, q_hh, q_mm, steps, ret, stepVars, fmtVars,
                   mainVars>>

\* lines 223-227: the call of around_time
MainLookup ==
    /\ pc = "loop"
    /\ iter < MaxIter
    /\ \E now \in NowTimes :
        /\ q_hh' = now[1] /\ q_mm' = now[2]
        /\ hh' = now[1] /\ mm' = now[2]
    /\ dir' = "Backward"
    /\ steps' = 0
    /\ ret' = {}
    /\ iter' = iter + 1
    /\ printed' = FALSE
    /\ pc' = "around_time"
    /\ UNCHANGED <<earlier, quotes, map, stepVars, fmtVars, clock, last, prints>>

\* the comparison of line 232 looking at the time field only
QuoteNe_time(a, b) == a.time # b.time

\* line 232: prev != quote, the derived PartialEq of Quote, field by field
QuoteNe(a, b) == a.time # b.time \/ a.context # b.context \/ a.quote # b.quote

\* lines 228-235: the buffer is formatted, `last` replaced, the buffer printed
\* when there was no previous quote or it differs
MainPrint ==
    /\ pc = "returned"
    /\ \E q \in ret :
        /\ last' = {q}
        /\ printed' = (last = {} \/ \E prev \in last : QuoteNe(quotes[prev], quotes[q]))
    /\ prints' = IF printed' THEN prints + 1 ELSE prints
    /\ pc' = "printed"
    /\ UNCHANGED <<dbVars, stepVars, fmtVars, clock, iter>>

\* lines 237-239
MainReturn ==
    /\ pc = "printed"
    /\ ~clock
    /\ pc' = "exit"
    /\ UNCHANGED <<dbVars, stepVars, fmtVars, mainVars>>

\* lines 241-243
MainSleep ==
    /\ pc = "printed"
    /\ clock
    /\ pc' = "loop"
    /\ UNCHANGED <<dbVars, stepVars, fmtVars, mainVars>>

NextMain ==
    \/ MainNew
    \/ MainLookup
    \/ AroundTimeReturn
    \/ AroundTimeStep
    \/ MainPrint
    \/ MainReturn
    \/ MainSleep

SpecMain == InitMain /\ [][NextMain]_vars

----------------------------------------------------------------------------
(* next_time alone, applied again and again from every clock time *)

InitStep ==
    /\ quotes = <<>> /\ map = EmptyMap /\ pc = "step" /\ NoCall /\ NoFormat /\ NoMain
    /\ n_in \in Hours \X Minutes
    /\ n_dir = "Forward"
    /\ n_out = n_in
    /\ n_called = FALSE
    /\ n_start = <<0, 0>> /\ n_net = 0

StepCall(d) ==
    /\ pc = "step"
    /\ n_in' = n_out
    /\ n_dir' = d
    /\ n_out' = next_time(n_out[1], n_out[2], d)
    /\ n_called' = TRUE
    /\ UNCHANGED <<timeVars, fmtVars, mainVars, n_start, n_net>>

StepForward == StepCall("Forward")

StepBackward == StepCall("Backward")

NextStep == StepForward \/ StepBackward

SpecStep == InitStep /\ [][NextStep]_vars

----------------------------------------------------------------------------
(* next_time applied in a row, each call on the result of the one before, *)
(* in either direction                                                     *)

InitCycle ==
    /\ quotes = <<>> /\ map = EmptyMap /\ pc = "cycle" /\ NoCall /\ NoFormat /\ NoMain
    /\ n_start \in StartTimes
    /\ n_in = n_start /\ n_out = n_start
    /\ n_dir = "Forward"
    /\ n_called = FALSE
    /\ n_net = 0

CycleCall(d) ==
    /\ pc = "cycle"
    /\ IF d = "Forward" THEN n_net < MaxNet ELSE n_net > -MaxNet
    /\ n_in' = n_out
    /\ n_dir' = d
    /\ n_out' = next_time(n_out[1], n_out[2], d)
    /\ n_called' = TRUE
    /\ n_net' = IF d = "Forward" THEN n_net + 1 ELSE n_net - 1
    /\ UNCHANGED <<timeVars, fmtVars, mainVars, n_start>>

CycleForward == CycleCall("Forward")

CycleBackward == CycleCall("Backward")

NextCycle == CycleForward \/ CycleBackward

SpecCycle == InitCycle /\ [][NextCycle]_vars

----------------------------------------------------------------------------
(* What the claims speak of *)

MinutesPerDay == (LastHour + 1) * (LastMinute + 1)

MinuteOfDay(h, mi) == (LastMinute + 1) * h + mi

\* minutes from time a to time b going in direction d around the day
Distance(d, a, b) ==
    IF d = "Forward"
    THEN (MinuteOfDay(b[1], b[2]) - MinuteOfDay(a[1], a[2]) + MinutesPerDay) % MinutesPerDay
    ELSE (MinuteOfDay(a[1], a[2]) - MinuteOfDay(b[1], b[2]) + MinutesPerDay) % MinutesPerDay

\* the clock reading each time literal of the model stands for
ReadingOf ==
    [t \in TimeLiterals |->
        IF t = T0000 THEN <<0, 0>>
        ELSE IF t = T1230 THEN <<12, 30>>
        ELSE IF t = T2359 THEN <<23, 59>>
        ELSE IF t = T2400 THEN <<24, 0>>
        ELSE <<0, 0>>]

\* the time of the i-th record of the corpus, read from its own time field
TimeOf(i) == ReadingOf[quotes[i].time]

RecordsAt(t) == {i \in 1..Len(quotes) : TimeOf(i) = t}

HasValidRecord == \E i \in 1..Len(quotes) : ValidTime(TimeOf(i)[1], TimeOf(i)[2])

----------------------------------------------------------------------------
\* C1: the record around_time returns is at the nearest populated time in
\* the requested direction: at the start time itself, with no step taken,
\* when a record exists there, and otherwise at a time such that no record
\* of the corpus lies at a clock time met earlier in that direction.
C1_Nearest ==
    pc = "returned" =>
        \E q \in ret :
            /\ q \in RecordsAt(<<hh, mm>>)
            /\ RecordsAt(<<q_hh, q_mm>>) # {} => (TimeOf(q) = <<q_hh, q_mm>> /\ steps = 0)
            /\ \A i \in 1..Len(quotes) :
                   ValidTime(TimeOf(i)[1], TimeOf(i)[2]) =>
                       Distance(dir, <<q_hh, q_mm>>, TimeOf(i))
                           >= Distance(dir, <<q_hh, q_mm>>, TimeOf(q))

C1_Witness ==
    /\ pc = "returned" /\ steps > 0 /\ Len(quotes) = 2
    /\ TimeOf(1) # TimeOf(2) /\ ValidTime(TimeOf(1)[1], TimeOf(1)[2])
    /\ ValidTime(TimeOf(2)[1], TimeOf(2)[2])

\* C2: on an index holding a record at a clock time, a search of
\* around_time never takes more than 1439 steps, it returns a record whose
\* time lies exactly `steps` minutes from the start, and it terminates.
C2_Bounded ==
    /\ HasValidRecord /\ pc = "around_time" => steps < MinutesPerDay
    /\ HasValidRecord /\ pc = "around_time" /\ steps = MinutesPerDay - 1
           => at_time(map, hh, mm) # {}
    /\ pc = "returned" =>
           /\ steps <= MinutesPerDay - 1
           /\ \E q \in ret : Distance(dir, <<q_hh, q_mm>>, TimeOf(q)) <= steps

C2_Terminates ==
    /\ []C2_Bounded
    /\ (pc = "around_time" /\ HasValidRecord) ~> (pc = "returned" /\ ret # {})

C2_Witness == pc = "returned" /\ steps = MinutesPerDay - 1

\* C3: on a clock time next_time steps by exactly one minute of the cyclic
\* day, case by case as listed, the result is a clock time and no u8
\* operation leaves 0..255.
C3_OneMinute ==
    n_called =>
        LET h == n_in[1]
            mi == n_in[2]
            want == IF n_dir = "Backward"
                    THEN IF h = 0 /\ mi = 0 THEN <<23, 59>>
                         ELSE IF mi = 0 THEN <<h - 1, 59>>
                         ELSE <<h, mi - 1>>
                    ELSE IF h = 23 /\ mi = 59 THEN <<0, 0>>
                         ELSE IF mi = 59 THEN <<h + 1, 0>>
                         ELSE <<h, mi + 1>>
            delta == IF n_dir = "Backward" THEN -1 ELSE 1
        IN  /\ ValidTime(h, mi)
            /\ n_out = want
            /\ ValidTime(n_out[1], n_out[2])
            /\ MinuteOfDay(n_out[1], n_out[2])
                   = (MinuteOfDay(h, mi) + delta + MinutesPerDay) % MinutesPerDay
            /\ ~next_time_overflows(h, mi, n_dir)

C3_Witness == n_called /\ n_in = <<0, 0>> /\ n_dir = "Backward" /\ n_out = <<23, 59>>

\* C4: the i-th probe of a search is the clock time i minutes from the
\* start in the requested direction, so a record is found before any
\* probe repeats; Backward from 00:00 the second probe is 23:59.
C4_Probes ==
    /\ pc \in {"around_time", "returned"} =>
           /\ ValidTime(hh, mm)
           /\ MinuteOfDay(hh, mm)
                  = (MinuteOfDay(q_hh, q_mm)
                       + (IF dir = "Backward" THEN -steps ELSE steps)
                       + 2 * MinutesPerDay) % MinutesPerDay
    /\ pc = "returned" => steps < MinutesPerDay
    /\ (pc = "around_time" /\ q_hh = 0 /\ q_mm = 0 /\ dir = "Backward" /\ steps = 1)
           => (hh = 23 /\ mm = 59)

C4_Witness ==
    /\ pc = "around_time" /\ q_hh = 0 /\ q_mm = 0 /\ dir = "Backward"
    /\ steps = 1 /\ hh = 23 /\ mm = 59

\* C5: at_time returns nothing exactly when the corpus has no record at
\* the key it is asked for; what it returns is a record at that key; and
\* every record at that key is a possible result.
C5_Lookup ==
    /\ pc = "at_time_done" =>
           /\ ret = {} <=> RecordsAt(<<q_hh, q_mm>>) = {}
           /\ ret \subseteq RecordsAt(<<q_hh, q_mm>>)
    /\ pc = "idle" =>
           \A t \in LookupKeys : \A i \in RecordsAt(t) :
               ENABLED (AtTimeCall(t[1], t[2]) /\ ret' = {i})

C5_Witness ==
    /\ pc = "at_time_done" /\ Len(quotes) = 2 /\ TimeOf(1) = TimeOf(2)
    /\ TimeOf(1) = <<q_hh, q_mm>> /\ ret = {2}

\* C9: with an empty corpus main stops at startup with an error, so that
\* around_time never runs on the empty index.
C9_EmptyCorpusStops == quotes = <<>> => pc # "around_time"

\* the places of the index that hold the reference i
Occurrences(i) ==
    {e \in (DOMAIN map) \X (1..Len(quotes)) : e[2] <= Len(map[e[1]]) /\ map[e[1]][e[2]] = i}

\* C11: once built, and through any sequence of at_time and around_time
\* calls, the index is the grouping of the corpus by time: its keys are
\* the times of the records, every record is held exactly once, under the
\* key read from its own time field, and no lookup changes the index.
C11_Grouping ==
    pc \in {"idle", "at_time_done", "around_time", "returned"} =>
        /\ DOMAIN map = {TimeOf(i) : i \in 1..Len(quotes)}
        /\ \A k \in DOMAIN map :
               /\ map[k] # <<>>
               /\ \A j \in 1..Len(map[k]) : map[k][j] \in 1..Len(quotes)
        /\ \A i \in 1..Len(quotes) :
               /\ Cardinality(Occurrences(i)) = 1
               /\ \A e \in Occurrences(i) : e[1] = TimeOf(i)

C11_IndexIsGrouping ==
    /\ []C11_Grouping
    /\ [][pc # "new" => map' = map]_vars

C11_Witness ==
    /\ pc = "returned" /\ earlier # <<>> /\ steps > 0
    /\ Len(quotes) = 2 /\ TimeOf(1) = TimeOf(2)

\* C12: a lookup made twice with the same arguments on the same index
\* returns records of the same (hour, minute), whichever record the random
\* choice takes each time, and both records are in the index's vector of
\* that time.
C12_SameTime ==
    (pc \in {"at_time_done", "returned"} /\ earlier # <<>>) =>
        \A a \in earlier[1], b \in ret :
            /\ TimeOf(a) = TimeOf(b)
            /\ TimeOf(a) \in DOMAIN map
            /\ {a, b} \subseteq {map[TimeOf(a)][j] : j \in 1..Len(map[TimeOf(a)])}

C12_Witness ==
    /\ pc = "returned" /\ steps > 0
    /\ earlier = <<{1}>> /\ ret = {2}

\* the scan is at a space that follows a non-space char of the same line
AtInnerSpace ==
    /\ pc = "scan" /\ 0 < idx /\ idx < Len(text)
    /\ text[idx + 1] = " "
    /\ text[idx] \notin {" ", "\n"}

\* C13: only the indentation that directly follows a newline is skipped:
\* a space that follows a non-space char of its line and is not the char
\* the phrase expects clears the match, also when the match in progress
\* has crossed a newline.
C13_InnerSpaceResets ==
    [][(AtInnerSpace /\ ~Matches(text[idx + 1], ctx, highlights))
           => highlights' = <<>>]_vars

\* the scan is at a char that is no newline, is not the char the phrase
\* expects, and is not a space skipped under the head flag
AtFailedChar ==
    /\ pc = "scan" /\ idx < Len(text)
    /\ text[idx + 1] # "\n"
    /\ ~Matches(text[idx + 1], ctx, highlights)
    /\ ~(text[idx + 1] = " " /\ head)

\* C14: at such a char the matched indices are cleared (the match length
\* is 0), the head flag is cleared and the scan goes on with the next
\* char: the failed char does not start a new match, also when it is the
\* first char of the phrase.
C14_Reset ==
    [][AtFailedChar =>
           /\ highlights' = <<>>
           /\ head' = FALSE
           /\ idx' = idx + 1
           /\ pc' = "scan"
           /\ text' = text /\ ctx' = ctx]_vars

\* the char just left equals the first char of the phrase and no match
\* is in progress: it failed a match in progress and was not taken up
C14_Witness ==
    /\ pc = "scan" /\ idx > 0
    /\ highlights = <<>> /\ head = FALSE
    /\ Matches(text[idx], ctx, <<>>)

\* C15: as soon as the matched chars are as many as the chars of the
\* phrase, the scan stops with exactly that match: while the scan goes on
\* the match is shorter than the phrase, and once it has stopped no char
\* adds to the highlight set or clears it. For every phrase, also one
\* with a char of more than one byte.
C15_StopsAtCompleteMatch ==
    /\ [](pc = "scan" => Len(highlights) < Len(ctx))
    /\ [][(pc \in {"paint", "formatted"}) => highlights' = highlights]_vars

\* the scan ended with the rendering and not at the break of line 53
Exhausted == pc \in {"paint", "formatted"} /\ idx = Len(text)

\* the matched indices are a match of the first chars of the phrase
MatchedPrefix ==
    /\ Len(highlights) <= Len(ctx)
    /\ \A j \in 1..Len(highlights) :
           /\ highlights[j] \in 0..(Len(text) - 1)
           /\ ToAsciiLowercase(text[highlights[j] + 1]) = ctx[j]

\* C16: format never fails, whatever the rendering and the phrase: it can
\* always go on until it has written its output. When the rendering is
\* exhausted, the highlight set is the match in progress at its end, a
\* match of a prefix of the phrase (maybe empty) after which only newlines
\* and spaces came, and exactly its indices are painted in the highlight
\* color.
C16_PartialPainted ==
    /\ pc # "panic"
    /\ pc # "formatted" => ENABLED NextFormat
    /\ Exhausted =>
           /\ MatchedPrefix
           /\ \A i \in 0..(Len(text) - 1) :
                  (highlights # <<>> /\ i > highlights[Len(highlights)])
                      => text[i + 1] \in {"\n", " "}
    /\ (Exhausted /\ pc = "formatted") =>
           /\ Len(stream) = Len(text) + 4
           /\ \A i \in 0..(Len(text) - 1) :
                  stream[i + 2][2]
                      = (IF i \in HighlightSet THEN "highlight" ELSE "inactive")

C16_Witness ==
    /\ Exhausted /\ pc = "formatted"
    /\ highlights # <<>> /\ Len(highlights) < Len(ctx)
    /\ \E i \in 1..Len(stream) : stream[i][2] = "highlight"

\* C17: at every step of the scan, and after it, the matched indices fit
\* the phrase: they increase strictly, they are no more than the phrase
\* has chars, the lowercased char of the rendering at the j-th of them is
\* the j-th char of the phrase, and none of them is the index of a newline.
C17_Consistent ==
    pc \in {"scan", "paint", "formatted"} =>
        /\ \A j \in 1..(Len(highlights) - 1) : highlights[j] < highlights[j + 1]
        /\ Len(highlights) <= Len(ctx)
        /\ \A j \in 1..Len(highlights) :
               /\ highlights[j] \in 0..(Len(text) - 1)
               /\ ToAsciiLowercase(text[highlights[j] + 1]) = ctx[j]
               /\ text[highlights[j] + 1] # "\n"

\* a match in progress that has crossed a newline
C17_Witness ==
    /\ pc = "scan" /\ Len(highlights) >= 2 /\ Len(highlights) < Len(ctx)
    /\ \E i \in 0..(Len(text) - 1) :
           text[i + 1] = "\n" /\ highlights[1] < i /\ i < highlights[2]

\* C18: on clock times the two directions of next_time undo each other:
\* a step made in the direction opposite to the step before it gives back
\* the time that step began at, also across 23:59/00:00; and 1440 steps in
\* one direction (1440 more one way than the other) lead back to the start.
C18_Inverse ==
    /\ [][(n_called /\ n_dir' # n_dir) => n_out' = n_in]_vars
    /\ [](n_net \in {MinutesPerDay, -MinutesPerDay} => n_out = n_start)
    /\ [](ValidTime(n_out[1], n_out[2]))

\* the 1440th step Forward from 00:00 goes from 23:59 to 00:00
C18_Witness ==
    /\ pc = "cycle" /\ n_net = MinutesPerDay
    /\ n_start = <<0, 0>> /\ n_in = <<23, 59>> /\ n_out = <<0, 0>> /\ n_dir = "Forward"

\* C19, the steps: the step that ends an iteration's lookup puts the quote
\* chosen into `last`, and prints on the first iteration, and on a later
\* one exactly when the quote chosen is not equal, as a record, to the one
\* chosen in the iteration before; nothing else changes `last` or prints;
\* without "clock" the step after it leaves the loop.
C19_Steps ==
    /\ (pc = "returned" /\ pc' = "printed") =>
           /\ last' = ret
           /\ printed' <=> (iter = 1 \/ \E p \in last, q \in ret : quotes[p] # quotes[q])
           /\ prints' = IF printed' THEN prints + 1 ELSE prints
    /\ (last' # last \/ prints' # prints) => (pc = "returned" /\ pc' = "printed")
    /\ (pc = "printed" /\ ~clock) => pc' = "exit"

\* C19, the states: before the first iteration `last` is None; after an
\* iteration's print decision `last` is the quote its lookup returned; the
\* first iteration has printed; without "clock" there is no second
\* iteration, and the loop is left after one iteration and one print.
C19_States ==
    /\ iter = 0 => (last = {} /\ prints = 0)
    /\ pc \in {"printed", "exit"} => (last = ret /\ Cardinality(ret) = 1)
    /\ (pc = "printed" /\ iter = 1) => (printed /\ prints = 1)
    /\ ~clock => iter <= 1
    /\ pc = "exit" => (~clock /\ iter = 1 /\ prints = 1)

\* C19: in main's loop the rendering is printed on the first iteration and
\* on a later one if and only if the quote chosen differs, field by field,
\* from the quote of the iteration before; `last` is always the quote
\* chosen most recently; without "clock" the loop ends after exactly one
\* iteration and one print.
C19_PrintOnChange == []C19_States /\ [][C19_Steps]_vars

\* the second iteration chose another row of the same time with another
\* text and printed it
C19_Witness ==
    /\ pc = "printed" /\ iter = 2 /\ printed /\ prints = 2
    /\ Len(quotes) = 2 /\ quotes[1].time = quotes[2].time /\ quotes[1] # quotes[2]

====
